---- MODULE Spec2Model ----
(***************************************************************************)
(* speech2recap: the /api/transcribe request handler (route.ts POST) and   *)
(* the server-side audio utilities it calls (getAudioDuration,             *)
(* calculateRequiredParts, splitAudioFile, trimAudioFile).                 *)
(*                                                                         *)
(* One request is one sequential pipeline.  Every await of the handler is  *)
(* a step; the outcome of each external call (file write, ffprobe, ffmpeg, *)
(* file read, transcription, summarization) is chosen nondeterministically.*)
(* Times are exact rationals <<numerator, denominator>>; floating-point    *)
(* rounding of the JavaScript numbers is not modelled.                     *)
(***************************************************************************)
EXTENDS Integers, Sequences, FiniteSets, TLC

VARIABLES
    req,              \* the multipart form fields of the request
    file,             \* the File the handler holds (replaced on the trim path)
    ffprobeBinaryPath,\* module constant: TRUE when an ffprobe binary was found
    pc,               \* position of the handler
    tmpFiles,         \* temporary files that currently exist on disk
    probeOutcome,     \* what the inspection backend answered
    probeCalls,       \* number of ffprobe invocations
    duration,         \* actualDurationSeconds (whole seconds)
    numParts,         \* numParts of the split path
    i,                \* loop index of the current loop
    encodeCalls,      \* windows handed to the transcoder, in call order
    partBuffers,      \* sizes of the buffers read back by splitAudioFile
    partFiles,        \* partFiles of the route
    transcribeCalls,  \* files sent to the transcription provider, in call order
    providerReplies,  \* texts the provider returned, in call order
    inflight,         \* provider calls issued and not yet returned
    transcriptions,   \* transcriptions array of the split path
    transcribedText,  \* transcribedText of the route
    summarizeCalls,   \* transcripts sent to the summarizer
    responses,        \* responses returned by the handler
    planDuration,     \* input of the part planner when it is exercised alone
    planParts,        \* its result (0: not yet computed)
    now,              \* Date.now() of the server, when two requests share it
    disk,             \* the files of os.tmpdir() the two requests share
    jobs,             \* the two requests' positions and locals
    completion,       \* what the summarizer call produced (called FALSE: not yet)
    page,             \* the useState values of the Home component
    fetches,          \* the requests of the page that are in flight
    started           \* number of requests the page has started

vars == <<req, file, ffprobeBinaryPath, pc, tmpFiles, probeOutcome, probeCalls,
          duration, numParts, i, encodeCalls, partBuffers, partFiles,
          transcribeCalls, providerReplies, inflight, transcriptions,
          transcribedText, summarizeCalls, responses, planDuration, planParts,
          now, disk, jobs, completion, page, fetches, started>>

(***************************************************************************)
(* Program constants and bounds                                            *)
(***************************************************************************)
MAX_MINUTES_PER_PART == 24

maxSize == 25 * 1024 * 1024

SecondsPerPart == MAX_MINUTES_PER_PART * 60

\* Longest audio of the request model, in parts of 24 minutes.
MaxDurationParts == 3

\* Longest duration given to the part planner alone, in seconds.
MaxPlanDuration == 6000

Null == "null"

\* True audio lengths of the uploaded file, in seconds: the multiples of 24
\* minutes, one second past each, and the 3350 s recording of the scenario.
Durations ==
    {k * SecondsPerPart : k \in 0..MaxDurationParts}
    \cup {k * SecondsPerPart + 1 : k \in 0..(MaxDurationParts - 1)}
    \cup {d \in {3350} : d <= MaxDurationParts * SecondsPerPart}

\* Sizes an encoded segment can have: well under the ceiling, at the ceiling,
\* one byte over, and 30 MiB.
SegmentSizes == {1024, maxSize, maxSize + 1, 30 * 1024 * 1024}

\* Sizes of the uploaded file.
UploadSizes == {10 * 1024 * 1024, 28 * 1024 * 1024}

\* Texts the transcription provider can return.
Fragments == {<<>>, <<"a">>, <<"b">>}

Languages == {"", "english", "french", "French", "german"}

SplitAudioValues == {Null, "true", "false"}

\* trimDuration form values: absent, empty, "0", "-3", "1", "15", "30", "x".
TrimDurationValues ==
    {<<Null>>, <<>>, <<"0">>, <<"-", "3">>, <<"1">>, <<"1", "5">>, <<"3", "0">>,
     <<"x">>}

(***************************************************************************)
(* Pure helpers                                                            *)
(***************************************************************************)
Max(a, b) == IF a >= b THEN a ELSE b

\* Math.ceil(a / b) for integers a >= 0, b > 0.
CeilDiv(a, b) == (a + b - 1) \div b

\* Exact rationals <<n, d>> with d > 0.
Rat(n, d) == <<n, d>>

RatEq(x, y) == x[1] * y[2] = y[1] * x[2]

RatLeq(x, y) == x[1] * y[2] <= y[1] * x[2]

RatAdd(x, y) == <<x[1] * y[2] + y[1] * x[2], x[2] * y[2]>>

RatScale(k, x) == <<k * x[1], x[2]>>

RatZero(x) == x[1] = 0

\* calculateRequiredParts with the clamp to 2 left out.
calculateRequiredPartsNoClamp(totalDurationSeconds) ==
    CeilDiv(totalDurationSeconds, 60 * MAX_MINUTES_PER_PART)

\* calculateRequiredParts rounding down instead of up.
calculateRequiredPartsFloor(totalDurationSeconds) ==
    Max(totalDurationSeconds \div (60 * MAX_MINUTES_PER_PART), 2)

\* calculateRequiredParts: totalMinutes = s / 60, ceil(totalMinutes / 24),
\* then Math.max(requiredParts, 2).
calculateRequiredParts(totalDurationSeconds) ==
    Max(CeilDiv(totalDurationSeconds, 60 * MAX_MINUTES_PER_PART), 2)

\* The value of `duration` at line 240 of splitAudioFile, for loop index idx
\* (0-based): undefined for the last part, partDuration otherwise.
WindowDurationDefined(idx, parts) == idx # parts - 1

\* `if (duration)`: JavaScript truthiness of a number-or-undefined.
Truthy(defined, value) == defined /\ ~RatZero(value)

\* Whether the ffmpeg command of window idx gets setDuration (lines 240, 251).
SetsDuration(idx, total, parts) ==
    Truthy(WindowDurationDefined(idx, parts), Rat(total, parts))

\* The window handed to the transcoder for loop index idx (lines 234-253).
Window(idx, total, parts) ==
    [start       |-> RatScale(idx, Rat(total, parts)),
     hasDuration |-> SetsDuration(idx, total, parts),
     length      |-> IF SetsDuration(idx, total, parts)
                     THEN Rat(total, parts) ELSE Rat(0, 1)]

\* partFile.size > maxSize with the comparison off by one.
OverLimitOffByOne(size) == size > maxSize + 1

\* partFile.size > maxSize (route.ts line 72).
OverLimit(size) == size > maxSize

\* The size-guard loop looking at every part but the last.
FirstOversizedSkipLast(sizes) ==
    IF \E k \in 1..(Len(sizes) - 1) : OverLimit(sizes[k])
    THEN CHOOSE k \in 1..(Len(sizes) - 1) :
             OverLimit(sizes[k]) /\ \A j \in 1..(k - 1) : ~OverLimit(sizes[j])
    ELSE 0

\* The size-guard loop reporting the last part over the ceiling.
LastOversized(sizes) ==
    IF \E k \in 1..Len(sizes) : OverLimit(sizes[k])
    THEN CHOOSE k \in 1..Len(sizes) :
             OverLimit(sizes[k])
             /\ \A j \in (k + 1)..Len(sizes) : ~OverLimit(sizes[j])
    ELSE 0

\* The size-guard loop (route.ts lines 64-80): 1-based index of the first part
\* over the ceiling, 0 when every part passes.
FirstOversized(sizes) ==
    IF \E k \in 1..Len(sizes) : OverLimit(sizes[k])
    THEN CHOOSE k \in 1..Len(sizes) :
             OverLimit(sizes[k]) /\ \A j \in 1..(k - 1) : ~OverLimit(sizes[j])
    ELSE 0

RECURSIVE JoinNoSeparator(_, _)
\* Array.prototype.join with the separator dropped.
JoinNoSeparator(strs, sep) ==
    IF Len(strs) = 0 THEN <<>>
    ELSE JoinNoSeparator(SubSeq(strs, 1, Len(strs) - 1), sep) \o strs[Len(strs)]

RECURSIVE Join(_, _)
\* Array.prototype.join: the elements in index order, sep between neighbours.
Join(strs, sep) ==
    IF Len(strs) = 0 THEN <<>>
    ELSE IF Len(strs) = 1 THEN strs[1]
    ELSE Join(SubSeq(strs, 1, Len(strs) - 1), sep) \o sep \o strs[Len(strs)]

\* The ternary treating everything but 'english' as French.
LanguageCodeEnglishOnly(language) == IF language = "english" THEN "en" ELSE "fr"

\* language === 'french' ? 'fr' : 'en'
LanguageCode(language) == IF language = "french" THEN "fr" ELSE "en"

Digits == {"0", "1", "2", "3", "4", "5", "6", "7", "8", "9"}

DigitValue(c) ==
    CASE c = "0" -> 0 [] c = "1" -> 1 [] c = "2" -> 2 [] c = "3" -> 3
      [] c = "4" -> 4 [] c = "5" -> 5 [] c = "6" -> 6 [] c = "7" -> 7
      [] c = "8" -> 8 [] c = "9" -> 9

RECURSIVE DigitsPrefix(_)
DigitsPrefix(s) ==
    IF Len(s) = 0 \/ s[1] \notin Digits THEN <<>>
    ELSE <<s[1]>> \o DigitsPrefix(Tail(s))

RECURSIVE DigitsValue(_)
DigitsValue(ds) ==
    IF Len(ds) = 0 THEN 0
    ELSE 10 * DigitsValue(SubSeq(ds, 1, Len(ds) - 1)) + DigitValue(ds[Len(ds)])

\* parseInt(s, 10): optional sign, then the longest run of digits; NaN when
\* there is none.
parseInt(s) ==
    LET neg  == Len(s) > 0 /\ s[1] = "-"
        rest == IF Len(s) > 0 /\ s[1] \in {"-", "+"} THEN Tail(s) ELSE s
        ds   == DigitsPrefix(rest)
    IN  IF Len(ds) = 0 THEN [nan |-> TRUE, value |-> 0]
        ELSE [nan |-> FALSE,
              value |-> IF neg THEN 0 - DigitsValue(ds) ELSE DigitsValue(ds)]

\* `if (trimDuration)`: a form value that is present and not the empty string.
TrimDurationGiven(t) == t # <<Null>> /\ t # <<>>

\* `durationMinutes > 0` written as `>= 0`.
TrimActiveAtZero(t) == ~parseInt(t).nan /\ parseInt(t).value >= 0

\* `durationMinutes > 0` (false for NaN).
TrimActive(t) == ~parseInt(t).nan /\ parseInt(t).value > 0

(***************************************************************************)
(* Temporary files                                                         *)
(***************************************************************************)
ProbeInputPath == <<"probe", 0>>

SplitInputPath == <<"input", 0>>

PartPath(k) == <<"part", k>>

TrimInputPath == <<"input", 0>>

TrimOutputPath == <<"output", 0>>

\* tempPartPaths of splitAudioFile (lines 222-227).
tempPartPaths(parts) == {PartPath(k) : k \in 1..parts}

\* The cleanup of getAudioDuration (lines 134 and 140).
ProbeCleanup(files) == files \ {ProbeInputPath}

\* The cleanup of splitAudioFile with the part files forgotten.
SplitCleanupInputOnly(files, parts) == files \ {SplitInputPath}

\* The cleanup of splitAudioFile (lines 273-276 and 281-284).
SplitCleanup(files, parts) == files \ ({SplitInputPath} \cup tempPartPaths(parts))

\* The cleanup of trimAudioFile (lines 180-181 and 186-187).
TrimCleanup(files) == files \ {TrimInputPath, TrimOutputPath}

(***************************************************************************)
(* Responses                                                               *)
(***************************************************************************)
\* The error text, by its parts: what failed and, for the size guard's
\* message, the part number, the size in hundredths of a MB, the limit in MB
\* and the part count.
ErrorBody(kind, part, size, parts) ==
    [error |-> [kind |-> kind, part |-> part, size |-> size, numParts |-> parts,
                limitMB |-> IF kind = "SplitFailed" THEN 25 ELSE 0]]

\* (bytes / 1024 / 1024).toFixed(2), in hundredths of a MB.
ToFixed2MB(bytes) ==
    100 * (bytes \div (1024 * 1024))
    + ((bytes % (1024 * 1024)) * 100 + 512 * 1024) \div (1024 * 1024)

\* NextResponse.json({ error }, { status })
ErrorResponse(status, kind) ==
    [status |-> status, body |-> ErrorBody(kind, 0, 0, 0)]

\* The size guard's response sent with status 500.
SplitFailedResponseAs500(part, size, parts) ==
    [status |-> 500,
     body |-> ErrorBody("SplitFailed", part, ToFixed2MB(size), parts)]

\* The 400 response of the size guard (route.ts lines 73-78).
SplitFailedResponse(part, size, parts) ==
    [status |-> 400,
     body |-> ErrorBody("SplitFailed", part, ToFixed2MB(size), parts)]

\* The success response (route.ts lines 159-163); status defaults to 200.
SuccessResponse(text, summary, keyPoints) ==
    [status |-> 200,
     body   |-> [transcription |-> text, summary |-> summary,
                 keyPoints |-> keyPoints]]

IsError(r) == DOMAIN r.body = {"error"}

IsSuccess(r) == DOMAIN r.body = {"transcription", "summary", "keyPoints"}

(***************************************************************************)
(* Initial state: a request has arrived and the handler has not started    *)
(***************************************************************************)
HandlerIdle ==
    /\ tmpFiles = {}
    /\ probeOutcome = "none"
    /\ probeCalls = 0
    /\ duration = 0
    /\ numParts = 0
    /\ i = 0
    /\ encodeCalls = <<>>
    /\ partBuffers = <<>>
    /\ partFiles = <<>>
    /\ transcribeCalls = <<>>
    /\ providerReplies = <<>>
    /\ inflight = 0
    /\ transcriptions = <<>>
    /\ transcribedText = <<>>
    /\ summarizeCalls = <<>>
    /\ responses = <<>>
    /\ completion = [called |-> FALSE, threw |-> FALSE,
                     content |-> [present |-> FALSE, text |-> ""]]

\* The two concurrent requests, and the server's clock bound.
Requests == {1, 2}

MaxClock == 1

NoPath == [prefix |-> "", part |-> 0, at |-> 0, name |-> ""]

\* The locals of one request before it computes any temporary path.
NewJob(kind, name, at) ==
    [kind |-> kind, name |-> name, pc |-> at, probePath |-> NoPath,
     inputPath |-> NoPath, outPaths |-> <<>>, duration |-> 0, k |-> 0,
     buffers |-> <<>>, result |-> [status |-> 0, audio |-> <<>>]]

\* The file state of the page before any drop.
NoFileYet == [name |-> <<>>, size |-> 0]

\* The useState initial values of Home (page.tsx lines 36-55).
HomeInitialState ==
    [file |-> NoFileYet, language |-> "english", isLoading |-> FALSE,
     transcription |-> "", summary |-> "", keyPoints |-> <<>>, error |-> "",
     fileSize |-> 0, isFileTooLarge |-> FALSE, trimDuration |-> 15,
     estimatedDuration |-> 0, processingMode |-> "split"]

\* The page just loaded, nothing sent.
PageIdle ==
    /\ page = HomeInitialState
    /\ fetches = <<>>
    /\ started = 0

\* One request at a time: the shared clock, disk and second request are unused.
SharedIdle ==
    /\ now = 0
    /\ disk = {}
    /\ jobs = [r \in Requests |-> NewJob("trim", "audio.m4a", "idle")]
    /\ PageIdle

Init ==
    /\ req \in [hasFile : BOOLEAN, language : Languages,
                splitAudio : SplitAudioValues, trimDuration : TrimDurationValues]
    /\ file \in [name : {"audio.m4a"}, type : {"audio/m4a"}, size : UploadSizes,
                 seconds : Durations]
    /\ ffprobeBinaryPath \in BOOLEAN
    /\ pc = "start"
    /\ HandlerIdle
    /\ planDuration = 0
    /\ planParts = 0
    /\ SharedIdle

handlerVars == <<tmpFiles, probeOutcome, probeCalls, duration, numParts, i,
                 encodeCalls, partBuffers, partFiles, transcribeCalls,
                 providerReplies, inflight, transcriptions, transcribedText,
                 summarizeCalls>>

handlerVarsButFiles == <<probeOutcome, probeCalls, duration, numParts, i,
                        encodeCalls, partBuffers, partFiles, transcribeCalls,
                        providerReplies, inflight, transcriptions,
                        transcribedText, summarizeCalls>>

fixedVars == <<req, ffprobeBinaryPath, planDuration, planParts, now, disk, jobs,
               completion, page, fetches, started>>

\* fixedVars but the summarizer's outcome.
fixedVarsButCompletion == <<req, ffprobeBinaryPath, planDuration, planParts,
                            now, disk, jobs, page, fetches, started>>

\* return NextResponse.json(...): the handler ends with response r.
Respond(r) ==
    /\ responses' = Append(responses, r)
    /\ pc' = "done"

(***************************************************************************)
(* route.ts POST, lines 11-37 and 100-121: validation and path choice      *)
(***************************************************************************)
RejectNoFile ==
    /\ pc = "start"
    /\ ~req.hasFile
    /\ Respond(ErrorResponse(400, "NoFile"))
    /\ UNCHANGED <<handlerVars, fixedVars, file>>

RejectNoLanguage ==
    /\ pc = "start"
    /\ req.hasFile
    /\ req.language = ""
    /\ Respond(ErrorResponse(400, "NoLanguage"))
    /\ UNCHANGED <<handlerVars, fixedVars, file>>

\* The validation without the language test of line 27.
ValidFileOnly == req.hasFile

\* Both tests of lines 20 and 27 passed.
Valid == req.hasFile /\ req.language # ""

\* splitAudio === 'true': getAudioDuration is called; without an ffprobe
\* binary it throws at once and the route answers 500 (lines 43-50).
EnterSplitUnconfigured ==
    /\ pc = "start"
    /\ Valid
    /\ req.splitAudio = "true"
    /\ ~ffprobeBinaryPath
    /\ probeOutcome' = "unconfigured"
    /\ Respond(ErrorResponse(500, "DurationUnknown"))
    /\ UNCHANGED <<tmpFiles, probeCalls, duration, numParts, i, encodeCalls,
                   partBuffers, partFiles, transcribeCalls, providerReplies,
                   inflight, transcriptions, transcribedText, summarizeCalls,
                   fixedVars, file>>

\* The path choice testing trimDuration before splitAudio.
EnterSplitUnlessTrim ==
    /\ pc = "start"
    /\ Valid
    /\ req.splitAudio = "true"
    /\ ffprobeBinaryPath
    /\ pc' = IF TrimDurationGiven(req.trimDuration)
             THEN (IF TrimActive(req.trimDuration)
                   THEN "trim_write" ELSE "transcribe_one")
             ELSE "probe_write"
    /\ UNCHANGED <<handlerVars, fixedVars, file, responses>>

EnterSplit ==
    /\ pc = "start"
    /\ Valid
    /\ req.splitAudio = "true"
    /\ ffprobeBinaryPath
    /\ pc' = "probe_write"
    /\ UNCHANGED <<handlerVars, fixedVars, file, responses>>

EnterTrim ==
    /\ pc = "start"
    /\ Valid
    /\ req.splitAudio # "true"
    /\ TrimDurationGiven(req.trimDuration)
    /\ pc' = IF TrimActive(req.trimDuration) THEN "trim_write" ELSE "transcribe_one"
    /\ UNCHANGED <<handlerVars, fixedVars, file, responses>>

\* The direct path refusing a file over the ceiling.
EnterDirectSizeChecked ==
    /\ pc = "start"
    /\ Valid
    /\ req.splitAudio # "true"
    /\ ~TrimDurationGiven(req.trimDuration)
    /\ IF OverLimit(file.size)
       THEN Respond(ErrorResponse(400, "TooLarge"))
       ELSE pc' = "transcribe_one" /\ UNCHANGED responses
    /\ UNCHANGED <<handlerVars, fixedVars, file>>

EnterDirect ==
    /\ pc = "start"
    /\ Valid
    /\ req.splitAudio # "true"
    /\ ~TrimDurationGiven(req.trimDuration)
    /\ pc' = "transcribe_one"
    /\ UNCHANGED <<handlerVars, fixedVars, file, responses>>

(***************************************************************************)
(* getAudioDuration (lines 100-144) as called from route.ts lines 41-51    *)
(***************************************************************************)
\* `metadata.format.duration || 0`
DurationOrZero(hasDuration, seconds) ==
    IF hasDuration /\ seconds # 0 THEN seconds ELSE 0

\* fs.writeFile of the probe input succeeds; ffprobe is started.
ProbeWriteInput ==
    /\ pc = "probe_write"
    /\ tmpFiles' = tmpFiles \cup {ProbeInputPath}
    /\ probeCalls' = probeCalls + 1
    /\ pc' = "ffprobe"
    /\ UNCHANGED <<probeOutcome, duration, numParts, i, encodeCalls, partBuffers,
                   partFiles, transcribeCalls, providerReplies, inflight,
                   transcriptions, transcribedText, summarizeCalls, fixedVars,
                   file, responses>>

\* file.arrayBuffer() or fs.writeFile throws (a partial file may be left):
\* catch at 138 unlinks and rethrows, the route answers 500.
ProbeWriteFail ==
    /\ pc = "probe_write"
    /\ \E created \in SUBSET {ProbeInputPath} :
           tmpFiles' = ProbeCleanup(tmpFiles \cup created)
    /\ probeOutcome' = "writeFailed"
    /\ Respond(ErrorResponse(500, "DurationUnknown"))
    /\ UNCHANGED <<probeCalls, duration, numParts, i, encodeCalls, partBuffers,
                   partFiles, transcribeCalls, providerReplies, inflight,
                   transcriptions, transcribedText, summarizeCalls, fixedVars,
                   file>>

\* The route's catch of a probe error falling back to the direct path.
ProbeFailFallsBack ==
    /\ pc = "ffprobe"
    /\ tmpFiles' = ProbeCleanup(tmpFiles)
    /\ probeOutcome' = "error"
    /\ pc' = "transcribe_one"
    /\ UNCHANGED <<probeCalls, duration, numParts, i, encodeCalls, partBuffers,
                   partFiles, transcribeCalls, providerReplies, inflight,
                   transcriptions, transcribedText, summarizeCalls, fixedVars,
                   file, responses>>

\* ffprobe calls back with err: reject, cleanup at 140, rethrow; the route's
\* catch (43-50) answers 500.
ProbeFail ==
    /\ pc = "ffprobe"
    /\ tmpFiles' = ProbeCleanup(tmpFiles)
    /\ probeOutcome' = "error"
    /\ Respond(ErrorResponse(500, "DurationUnknown"))
    /\ UNCHANGED <<probeCalls, duration, numParts, i, encodeCalls, partBuffers,
                   partFiles, transcribeCalls, providerReplies, inflight,
                   transcriptions, transcribedText, summarizeCalls, fixedVars,
                   file>>

\* ffprobe calls back with metadata, with or without format.duration; the
\* probe input is unlinked, the duration returned, and the route computes
\* numParts (line 54) and calls splitAudioFile (line 58).
ProbeAnswer ==
    /\ pc = "ffprobe"
    /\ \E hasDuration \in BOOLEAN :
        /\ probeOutcome' = IF hasDuration THEN "duration" ELSE "noDuration"
        /\ duration' = DurationOrZero(hasDuration, file.seconds)
    /\ tmpFiles' = ProbeCleanup(tmpFiles)
    /\ numParts' = calculateRequiredParts(duration')
    /\ pc' = "split_write"
    /\ UNCHANGED <<probeCalls, i, encodeCalls, partBuffers, partFiles,
                   transcribeCalls, providerReplies, inflight, transcriptions,
                   transcribedText, summarizeCalls, fixedVars, file, responses>>

(***************************************************************************)
(* splitAudioFile (lines 216-287)                                          *)
(***************************************************************************)
SplitWriteInput ==
    /\ pc = "split_write"
    /\ tmpFiles' = tmpFiles \cup {SplitInputPath}
    /\ i' = 0
    /\ pc' = "encode"
    /\ UNCHANGED <<probeOutcome, probeCalls, duration, numParts, encodeCalls,
                   partBuffers, partFiles, transcribeCalls, providerReplies,
                   inflight, transcriptions, transcribedText, summarizeCalls,
                   fixedVars, file, responses>>

SplitWriteFail ==
    /\ pc = "split_write"
    /\ \E created \in SUBSET {SplitInputPath} :
           tmpFiles' = SplitCleanup(tmpFiles \cup created, numParts)
    /\ Respond(ErrorResponse(500, "WriteError"))
    /\ UNCHANGED <<probeOutcome, probeCalls, duration, numParts, i, encodeCalls,
                   partBuffers, partFiles, transcribeCalls, providerReplies,
                   inflight, transcriptions, transcribedText, summarizeCalls,
                   fixedVars, file>>

\* One iteration of the loop at 238-262 whose ffmpeg run ends.
EncodeWindow ==
    /\ pc = "encode"
    /\ i < numParts
    /\ encodeCalls' = Append(encodeCalls, Window(i, duration, numParts))
    /\ tmpFiles' = tmpFiles \cup {PartPath(i + 1)}
    /\ IF i + 1 < numParts
       THEN i' = i + 1 /\ pc' = "encode"
       ELSE i' = 0 /\ pc' = "read"
    /\ UNCHANGED <<probeOutcome, probeCalls, duration, numParts, partBuffers,
                   partFiles, transcribeCalls, providerReplies, inflight,
                   transcriptions, transcribedText, summarizeCalls, fixedVars,
                   file, responses>>

\* An ffmpeg error answered by running the same window again.
EncodeFailRetried ==
    /\ pc = "encode"
    /\ i < numParts
    /\ encodeCalls' = Append(encodeCalls, Window(i, duration, numParts))
    /\ UNCHANGED <<tmpFiles, pc, probeOutcome, probeCalls, duration, numParts, i,
                   partBuffers, partFiles, transcribeCalls, providerReplies,
                   inflight, transcriptions, transcribedText, summarizeCalls,
                   fixedVars, file, responses>>

\* One iteration whose ffmpeg run errors (a partial part file may be left):
\* catch at 279 unlinks the input and every part path, rethrows; the route's
\* catch at 164 answers 500.
EncodeFail ==
    /\ pc = "encode"
    /\ i < numParts
    /\ encodeCalls' = Append(encodeCalls, Window(i, duration, numParts))
    /\ \E created \in SUBSET {PartPath(i + 1)} :
           tmpFiles' = SplitCleanup(tmpFiles \cup created, numParts)
    /\ Respond(ErrorResponse(500, "EncodeError"))
    /\ UNCHANGED <<probeOutcome, probeCalls, duration, numParts, i, partBuffers,
                   partFiles, transcribeCalls, providerReplies, inflight,
                   transcriptions, transcribedText, summarizeCalls, fixedVars,
                   file>>

\* One iteration of the read loop at 266-270; after the last one the cleanup
\* at 273-276 runs and the buffers are returned.
ReadPart ==
    /\ pc = "read"
    /\ i < numParts
    /\ \E size \in SegmentSizes : partBuffers' = Append(partBuffers, size)
    /\ IF i + 1 < numParts
       THEN i' = i + 1 /\ pc' = "read" /\ tmpFiles' = tmpFiles
       ELSE i' = 0 /\ pc' = "guard"
            /\ tmpFiles' = SplitCleanup(tmpFiles, numParts)
    /\ UNCHANGED <<probeOutcome, probeCalls, duration, numParts, encodeCalls,
                   partFiles, transcribeCalls, providerReplies, inflight,
                   transcriptions, transcribedText, summarizeCalls, fixedVars,
                   file, responses>>

ReadPartFail ==
    /\ pc = "read"
    /\ i < numParts
    /\ tmpFiles' = SplitCleanup(tmpFiles, numParts)
    /\ Respond(ErrorResponse(500, "ReadError"))
    /\ UNCHANGED <<probeOutcome, probeCalls, duration, numParts, i, encodeCalls,
                   partBuffers, partFiles, transcribeCalls, providerReplies,
                   inflight, transcriptions, transcribedText, summarizeCalls,
                   fixedVars, file>>

(***************************************************************************)
(* route.ts POST, lines 60-98: size guard, transcription of the parts      *)
(***************************************************************************)
\* `part${k}.mp3`
PartName(k) == "part" \o ToString(k) \o ".mp3"

\* new File([new Blob([partBuffers[k - 1]])], `part${k}.mp3`, {type})
PartFile(k, size) == [name |-> PartName(k), type |-> "audio/mp3", size |-> size]

\* The loop at 64-80 has no await: it runs as one step.  Either it returns
\* the 400 of the first part over the ceiling, or every part was pushed.
SizeGuard ==
    /\ pc = "guard"
    /\ LET bad == FirstOversized(partBuffers)
           upto == IF bad = 0 THEN Len(partBuffers) ELSE bad
       IN  /\ partFiles' = [k \in 1..upto |-> PartFile(k, partBuffers[k])]
           /\ IF bad = 0
              THEN /\ pc' = "transcribe"
                   /\ UNCHANGED responses
              ELSE Respond(SplitFailedResponse(bad, partBuffers[bad], numParts))
    /\ i' = 0
    /\ UNCHANGED <<tmpFiles, probeOutcome, probeCalls, duration, numParts,
                   encodeCalls, partBuffers, transcribeCalls, providerReplies,
                   inflight, transcriptions, transcribedText, summarizeCalls,
                   fixedVars, file>>

\* The loop condition at 86 stopping one part early.
PartsLeftButLast(idx, files) == idx < Len(files) - 1

\* `i < partFiles.length` (line 86)
PartsLeft(idx, files) == idx < Len(files)

\* openai.audio.transcriptions.create is called for partFiles[i] (88-92).
TranscribePartIssue ==
    /\ pc = "transcribe"
    /\ PartsLeft(i, partFiles)
    /\ transcribeCalls' = Append(transcribeCalls,
           [file |-> partFiles[i + 1], language |-> LanguageCode(req.language)])
    /\ inflight' = inflight + 1
    /\ pc' = "transcribe_wait"
    /\ UNCHANGED <<tmpFiles, probeOutcome, probeCalls, duration, numParts, i,
                   encodeCalls, partBuffers, partFiles, providerReplies,
                   transcriptions, transcribedText, summarizeCalls, fixedVars,
                   file, responses>>

\* The call returns: push transcription.text (93); when the loop ends the
\* texts are joined (97).
TranscribePartReturn ==
    /\ pc = "transcribe_wait"
    /\ \E text \in Fragments :
        /\ providerReplies' = Append(providerReplies, text)
        /\ transcriptions' = Append(transcriptions, text)
    /\ inflight' = inflight - 1
    /\ i' = i + 1
    /\ IF PartsLeft(i + 1, partFiles)
       THEN pc' = "transcribe" /\ UNCHANGED transcribedText
       ELSE pc' = "summarize" /\ transcribedText' = Join(transcriptions', <<" ">>)
    /\ UNCHANGED <<tmpFiles, probeOutcome, probeCalls, duration, numParts,
                   encodeCalls, partBuffers, partFiles, transcribeCalls,
                   summarizeCalls, fixedVars, file, responses>>

\* A failed part skipped: the loop goes on with an empty text for it.
TranscribePartFailSkipped ==
    /\ pc = "transcribe_wait"
    /\ transcriptions' = Append(transcriptions, <<>>)
    /\ inflight' = inflight - 1
    /\ i' = i + 1
    /\ IF PartsLeft(i + 1, partFiles)
       THEN pc' = "transcribe" /\ UNCHANGED transcribedText
       ELSE pc' = "summarize" /\ transcribedText' = Join(transcriptions', <<" ">>)
    /\ UNCHANGED <<tmpFiles, probeOutcome, probeCalls, duration, numParts,
                   encodeCalls, partBuffers, partFiles, transcribeCalls,
                   providerReplies, summarizeCalls, fixedVars, file, responses>>

\* The call throws: the catch at 164 answers 500 with the error's message.
TranscribePartFail ==
    /\ pc = "transcribe_wait"
    /\ inflight' = inflight - 1
    /\ Respond(ErrorResponse(500, "ProviderError"))
    /\ UNCHANGED <<tmpFiles, probeOutcome, probeCalls, duration, numParts, i,
                   encodeCalls, partBuffers, partFiles, transcribeCalls,
                   providerReplies, transcriptions, transcribedText,
                   summarizeCalls, fixedVars, file>>

(***************************************************************************)
(* trimAudioFile (lines 152-190) as called from route.ts lines 102-109     *)
(***************************************************************************)
durationMinutes == parseInt(req.trimDuration).value

TrimWriteInput ==
    /\ pc = "trim_write"
    /\ tmpFiles' = tmpFiles \cup {TrimInputPath}
    /\ pc' = "trim_encode"
    /\ UNCHANGED <<probeOutcome, probeCalls, duration, numParts, i, encodeCalls,
                   partBuffers, partFiles, transcribeCalls, providerReplies,
                   inflight, transcriptions, transcribedText, summarizeCalls,
                   fixedVars, file, responses>>

TrimWriteFail ==
    /\ pc = "trim_write"
    /\ \E created \in SUBSET {TrimInputPath} :
           tmpFiles' = TrimCleanup(tmpFiles \cup created)
    /\ Respond(ErrorResponse(500, "WriteError"))
    /\ UNCHANGED <<probeOutcome, probeCalls, duration, numParts, i, encodeCalls,
                   partBuffers, partFiles, transcribeCalls, providerReplies,
                   inflight, transcriptions, transcribedText, summarizeCalls,
                   fixedVars, file>>

\* The trim command with the minutes passed as seconds.
TrimWindowMinutesAsSeconds(minutes) ==
    [start |-> Rat(0, 1), hasDuration |-> TRUE, length |-> Rat(minutes, 1)]

\* The window of the trim command: no start time, setDuration(minutes * 60).
TrimWindow(minutes) ==
    [start |-> Rat(0, 1), hasDuration |-> TRUE, length |-> Rat(minutes * 60, 1)]

TrimEncode ==
    /\ pc = "trim_encode"
    /\ encodeCalls' = Append(encodeCalls, TrimWindow(durationMinutes))
    /\ tmpFiles' = tmpFiles \cup {TrimOutputPath}
    /\ pc' = "trim_read"
    /\ UNCHANGED <<probeOutcome, probeCalls, duration, numParts, i, partBuffers,
                   partFiles, transcribeCalls, providerReplies, inflight,
                   transcriptions, transcribedText, summarizeCalls, fixedVars,
                   file, responses>>

TrimEncodeFail ==
    /\ pc = "trim_encode"
    /\ encodeCalls' = Append(encodeCalls, TrimWindow(durationMinutes))
    /\ \E created \in SUBSET {TrimOutputPath} :
           tmpFiles' = TrimCleanup(tmpFiles \cup created)
    /\ Respond(ErrorResponse(500, "EncodeError"))
    /\ UNCHANGED <<probeOutcome, probeCalls, duration, numParts, i, partBuffers,
                   partFiles, transcribeCalls, providerReplies, inflight,
                   transcriptions, transcribedText, summarizeCalls, fixedVars,
                   file>>

\* The bytes of `seconds` of audio at .audioBitrate('128k'): 16000 per second.
EncodedBytes(seconds) == 16000 * seconds

\* The seconds the trim command keeps of a source of that length.
TrimmedSeconds(sourceSeconds, minutes) ==
    IF sourceSeconds < minutes * 60 THEN sourceSeconds ELSE minutes * 60

\* readFile of the output, cleanup, and the route's `file = new File(...)`.
\* The output has one of the segment sizes or the size the bitrate gives.
TrimRead ==
    /\ pc = "trim_read"
    /\ \E size \in SegmentSizes
                   \cup {EncodedBytes(TrimmedSeconds(file.seconds, durationMinutes))} :
           file' = [name |-> "trimmed-" \o file.name, type |-> "audio/mp3",
                    size |-> size,
                    seconds |-> TrimmedSeconds(file.seconds, durationMinutes)]
    /\ tmpFiles' = TrimCleanup(tmpFiles)
    /\ pc' = "transcribe_one"
    /\ UNCHANGED <<handlerVarsButFiles, fixedVars, responses>>

TrimReadFail ==
    /\ pc = "trim_read"
    /\ tmpFiles' = TrimCleanup(tmpFiles)
    /\ Respond(ErrorResponse(500, "ReadError"))
    /\ UNCHANGED <<handlerVarsButFiles, fixedVars, file>>

(***************************************************************************)
(* route.ts POST, lines 111-130: the single call of the trim/direct path   *)
(***************************************************************************)
TranscribeOneIssue ==
    /\ pc = "transcribe_one"
    /\ transcribeCalls' = Append(transcribeCalls,
           [file |-> [name |-> file.name, type |-> file.type, size |-> file.size],
            language |-> LanguageCode(req.language)])
    /\ inflight' = inflight + 1
    /\ pc' = "transcribe_one_wait"
    /\ UNCHANGED <<tmpFiles, probeOutcome, probeCalls, duration, numParts, i,
                   encodeCalls, partBuffers, partFiles, providerReplies,
                   transcriptions, transcribedText, summarizeCalls, fixedVars,
                   file, responses>>

TranscribeOneReturn ==
    /\ pc = "transcribe_one_wait"
    /\ \E text \in Fragments :
        /\ providerReplies' = Append(providerReplies, text)
        /\ transcribedText' = text
    /\ inflight' = inflight - 1
    /\ pc' = "summarize"
    /\ UNCHANGED <<tmpFiles, probeOutcome, probeCalls, duration, numParts, i,
                   encodeCalls, partBuffers, partFiles, transcribeCalls,
                   transcriptions, summarizeCalls, fixedVars, file, responses>>

TranscribeOneFail ==
    /\ pc = "transcribe_one_wait"
    /\ inflight' = inflight - 1
    /\ Respond(ErrorResponse(500, "ProviderError"))
    /\ UNCHANGED <<tmpFiles, probeOutcome, probeCalls, duration, numParts, i,
                   encodeCalls, partBuffers, partFiles, transcribeCalls,
                   providerReplies, transcriptions, transcribedText,
                   summarizeCalls, fixedVars, file>>

(***************************************************************************)
(* route.ts POST, lines 132-171: summarization and the response            *)
(***************************************************************************)
\* The summarizer given only the text of the last part.
SummarizeIssueLastPartOnly ==
    /\ pc = "summarize"
    /\ summarizeCalls' = Append(summarizeCalls,
           IF transcriptions = <<>> THEN transcribedText
           ELSE transcriptions[Len(transcriptions)])
    /\ pc' = "summarize_wait"
    /\ UNCHANGED <<tmpFiles, probeOutcome, probeCalls, duration, numParts, i,
                   encodeCalls, partBuffers, partFiles, transcribeCalls,
                   providerReplies, inflight, transcriptions, transcribedText,
                   fixedVars, file, responses>>

\* The user message of the completion call carries transcribedText (151).
SummarizeIssue ==
    /\ pc = "summarize"
    /\ summarizeCalls' = Append(summarizeCalls, transcribedText)
    /\ pc' = "summarize_wait"
    /\ UNCHANGED <<tmpFiles, probeOutcome, probeCalls, duration, numParts, i,
                   encodeCalls, partBuffers, partFiles, transcribeCalls,
                   providerReplies, inflight, transcriptions, transcribedText,
                   fixedVars, file, responses>>

\* The JSON text of a well-formed answer of the summarizer.
SummaryJSON == "{\"summary\":\"s\",\"keyPoints\":[\"p\"]}"

\* completion.choices[0].message.content: absent, empty, an object with and
\* without the two fields, an array, a string, null, and text that is no JSON.
NoContent == [present |-> FALSE, text |-> ""]

SummarizerContents ==
    {NoContent}
    \cup [present : {TRUE},
          text : {"", "{}", SummaryJSON, "[]", "\"text\"", "null", "not json"}]

\* `content || '{}'` (line 157).
ContentOrEmptyObject(content) ==
    IF ~content.present \/ content.text = "" THEN "{}" ELSE content.text

\* JSON.parse on the texts above: the type of the value, and what reading
\* .summary and .keyPoints of it gives (defined FALSE: undefined).
JSONParse(text) ==
    LET Undefined(type) ==
            [throws |-> FALSE, type |-> type, defined |-> FALSE,
             summary |-> "", keyPoints |-> <<>>]
    IN  CASE text = "{}" -> Undefined("object")
          [] text = SummaryJSON ->
               [throws |-> FALSE, type |-> "object", defined |-> TRUE,
                summary |-> "s", keyPoints |-> <<"p">>]
          [] text = "[]" -> Undefined("array")
          [] text = "\"text\"" -> Undefined("string")
          [] text = "null" -> Undefined("null")
          [] OTHER ->
               [throws |-> TRUE, type |-> "none", defined |-> FALSE,
                summary |-> "", keyPoints |-> <<>>]

\* A parse error answered like an empty object: the transcript is returned
\* with the defaults.
AnalysisResponseLenient(analysis, text) ==
    IF analysis.throws \/ analysis.type = "null"
    THEN SuccessResponse(text, "No summary available", <<>>)
    ELSE SuccessResponse(text,
             IF analysis.defined /\ analysis.summary # ""
             THEN analysis.summary ELSE "No summary available",
             IF analysis.defined THEN analysis.keyPoints ELSE <<>>)

\* Lines 157-163: parse, then the response with the defaults of 161-162;
\* reading a property of null throws a TypeError caught at 164.
AnalysisResponse(analysis, text) ==
    IF analysis.throws THEN ErrorResponse(500, "ParseError")
    ELSE IF analysis.type = "null" THEN ErrorResponse(500, "TypeError")
    ELSE SuccessResponse(text,
             IF analysis.defined /\ analysis.summary # ""
             THEN analysis.summary ELSE "No summary available",
             IF analysis.defined THEN analysis.keyPoints ELSE <<>>)

\* The completion call returns some content.
SummarizeReturn ==
    /\ pc = "summarize_wait"
    /\ \E content \in SummarizerContents :
        /\ completion' = [called |-> TRUE, threw |-> FALSE, content |-> content]
        /\ Respond(AnalysisResponse(JSONParse(ContentOrEmptyObject(content)),
                                    transcribedText))
    /\ UNCHANGED <<handlerVars, fixedVarsButCompletion, file>>

\* The completion call throws and the handler ends without an answer.
SummarizeFailUnanswered ==
    /\ pc = "summarize_wait"
    /\ completion' = [called |-> TRUE, threw |-> TRUE, content |-> NoContent]
    /\ pc' = "done"
    /\ UNCHANGED <<handlerVars, fixedVarsButCompletion, file, responses>>

\* The completion call throws: the catch at 164 answers 500.
SummarizeFail ==
    /\ pc = "summarize_wait"
    /\ completion' = [called |-> TRUE, threw |-> TRUE, content |-> NoContent]
    /\ Respond(ErrorResponse(500, "ProviderError"))
    /\ UNCHANGED <<handlerVars, fixedVarsButCompletion, file>>

(***************************************************************************)
(* The request handler                                                     *)
(***************************************************************************)
Next ==
    \/ RejectNoFile
    \/ RejectNoLanguage
    \/ EnterSplitUnconfigured
    \/ EnterSplit
    \/ EnterTrim
    \/ EnterDirect
    \/ ProbeWriteInput
    \/ ProbeWriteFail
    \/ ProbeFail
    \/ ProbeAnswer
    \/ SplitWriteInput
    \/ SplitWriteFail
    \/ EncodeWindow
    \/ EncodeFail
    \/ ReadPart
    \/ ReadPartFail
    \/ SizeGuard
    \/ TranscribePartIssue
    \/ TranscribePartReturn
    \/ TranscribePartFail
    \/ TrimWriteInput
    \/ TrimWriteFail
    \/ TrimEncode
    \/ TrimEncodeFail
    \/ TrimRead
    \/ TrimReadFail
    \/ TranscribeOneIssue
    \/ TranscribeOneReturn
    \/ TranscribeOneFail
    \/ SummarizeIssue
    \/ SummarizeReturn
    \/ SummarizeFail

Spec == Init /\ [][Next]_vars

\* Every external call eventually succeeds or fails, and the continuation of
\* the handler then runs: a step of the handler that stays enabled is taken.
FairSpec == Init /\ [][Next]_vars /\ WF_vars(Next)

(***************************************************************************)
(* External processes that never answer.  The promises at part_002 116-131,*)
(* 165-174 and 244-259 settle only in the ffprobe callback or on ffmpeg's  *)
(* 'end' / 'error' events; no timer is armed, so a process that emits      *)
(* nothing leaves the handler suspended at that await.                     *)
(***************************************************************************)
ProbeHangs ==
    /\ pc = "ffprobe"
    /\ pc' = "hung"
    /\ UNCHANGED <<handlerVars, fixedVars, file, responses>>

EncodeHangs ==
    /\ pc = "encode"
    /\ i < numParts
    /\ encodeCalls' = Append(encodeCalls, Window(i, duration, numParts))
    /\ pc' = "hung"
    /\ UNCHANGED <<tmpFiles, probeOutcome, probeCalls, duration, numParts, i,
                   partBuffers, partFiles, transcribeCalls, providerReplies,
                   inflight, transcriptions, transcribedText, summarizeCalls,
                   fixedVars, file, responses>>

TrimEncodeHangs ==
    /\ pc = "trim_encode"
    /\ encodeCalls' = Append(encodeCalls, TrimWindow(durationMinutes))
    /\ pc' = "hung"
    /\ UNCHANGED <<tmpFiles, probeOutcome, probeCalls, duration, numParts, i,
                   partBuffers, partFiles, transcribeCalls, providerReplies,
                   inflight, transcriptions, transcribedText, summarizeCalls,
                   fixedVars, file, responses>>

HangNext ==
    \/ Next
    \/ ProbeHangs
    \/ EncodeHangs
    \/ TrimEncodeHangs

\* Every continuation of the handler runs once the call it awaits has
\* settled: the steps of Next are taken whenever they stay enabled.
HangSpec == Init /\ [][HangNext]_vars /\ WF_vars(Next)

(***************************************************************************)
(* The part planner exercised alone over a range of durations              *)
(***************************************************************************)
PlanInit ==
    /\ req = [hasFile |-> TRUE, language |-> "english", splitAudio |-> "true",
              trimDuration |-> <<Null>>]
    /\ file = [name |-> "audio.m4a", type |-> "audio/m4a",
               size |-> 28 * 1024 * 1024, seconds |-> 0]
    /\ ffprobeBinaryPath = TRUE
    /\ pc = "plan"
    /\ HandlerIdle
    /\ planDuration \in 0..MaxPlanDuration
    /\ planParts = 0
    /\ SharedIdle

PlanStep ==
    /\ pc = "plan"
    /\ planParts' = calculateRequiredParts(planDuration)
    /\ pc' = "planned"
    /\ UNCHANGED <<handlerVars, req, file, ffprobeBinaryPath, planDuration,
                   responses, now, disk, jobs, completion, page, fetches,
                   started>>

PlanNext == PlanStep

PlanSpec == PlanInit /\ [][PlanNext]_vars

(***************************************************************************)
(* Two requests handled at the same time.  The handlers interleave at      *)
(* every await and share the server's clock and os.tmpdir(); each request  *)
(* takes the trim path (trimAudioFile) or the split path (getAudioDuration *)
(* then splitAudioFile).  File operations succeed whenever the file they   *)
(* need is there, so a request running alone always answers 200.           *)
(***************************************************************************)
FileNames == {"audio.m4a", "memo.m4a"}

\* Both uploads need two parts.
ConcUploadSeconds == SecondsPerPart + 1

\* The bytes request r uploaded.
Upload(r) == [src |-> r, seg |-> 0, seconds |-> ConcUploadSeconds]

\* What ffmpeg writes for segment seg of the input bytes d.
Encoded(d, seg) == [src |-> d.src, seg |-> seg, seconds |-> d.seconds]

\* `probe-${Date.now()}-${file.name}` (line 106).
ProbePathAt(t, name) == [prefix |-> "probe", part |-> 0, at |-> t, name |-> name]

\* `input-${Date.now()}-${file.name}` (lines 156 and 221).
InputPathAt(t, name) == [prefix |-> "input", part |-> 0, at |-> t, name |-> name]

\* `output-${Date.now()}.mp3` (line 157).
OutputPathAt(t) == [prefix |-> "output", part |-> 0, at |-> t, name |-> ".mp3"]

\* `part${i + 1}-${Date.now()}.mp3` (line 226).
PartPathAt(k, t) == [prefix |-> "part", part |-> k, at |-> t, name |-> ".mp3"]

Exists(p) == \E f \in disk : f.path = p

FileAt(p) == CHOOSE f \in disk : f.path = p

\* fs.writeFile and ffmpeg's save: create the file or replace its content.
writeFile(d, p, r, data) ==
    {f \in d : f.path # p} \cup {[path |-> p, owner |-> r, data |-> data]}

\* fs.unlink(...).catch(() => {}): remove the files if they are there.
unlink(d, ps) == {f \in d : f.path \notin ps}

Range(seq) == {seq[n] : n \in 1..Len(seq)}

Failed500 == [status |-> 500, audio |-> <<>>]

SetJob(r, j) == jobs' = [jobs EXCEPT ![r] = j]

ConcInit ==
    /\ req = [hasFile |-> TRUE, language |-> "english", splitAudio |-> "true",
              trimDuration |-> <<Null>>]
    /\ file = [name |-> "audio.m4a", type |-> "audio/m4a",
               size |-> 28 * 1024 * 1024, seconds |-> 0]
    /\ ffprobeBinaryPath = TRUE
    /\ pc = "concurrent"
    /\ HandlerIdle
    /\ planDuration = 0
    /\ planParts = 0
    /\ now = 0
    /\ disk = {}
    /\ PageIdle
    /\ \E k1 \in {"trim", "split"}, k2 \in {"trim", "split"}, n2 \in FileNames :
          jobs = [r \in Requests |->
                    IF r = 1 THEN NewJob(k1, "audio.m4a", "start")
                             ELSE NewJob(k2, n2, "start")]

concVarsButShared == <<handlerVars, req, file, ffprobeBinaryPath, pc,
                       planDuration, planParts, responses, completion, page,
                       fetches, started>>

\* The clock moves to the next millisecond.
Tick ==
    /\ now < MaxClock
    /\ now' = now + 1
    /\ UNCHANGED <<disk, jobs, concVarsButShared>>

\* trimAudioFile, lines 156-157.
TrimPaths(r) ==
    /\ jobs[r].pc = "start"
    /\ jobs[r].kind = "trim"
    /\ SetJob(r, [jobs[r] EXCEPT !.inputPath = InputPathAt(now, jobs[r].name),
                                 !.outPaths = <<OutputPathAt(now)>>,
                                 !.pc = "write"])
    /\ UNCHANGED <<now, disk, concVarsButShared>>

\* getAudioDuration, line 106.
ProbePath(r) ==
    /\ jobs[r].pc = "start"
    /\ jobs[r].kind = "split"
    /\ SetJob(r, [jobs[r] EXCEPT !.probePath = ProbePathAt(now, jobs[r].name),
                                 !.pc = "probe_write"])
    /\ UNCHANGED <<now, disk, concVarsButShared>>

\* getAudioDuration, lines 110-111.
ProbeWrite(r) ==
    /\ jobs[r].pc = "probe_write"
    /\ disk' = writeFile(disk, jobs[r].probePath, r, Upload(r))
    /\ SetJob(r, [jobs[r] EXCEPT !.pc = "ffprobe"])
    /\ UNCHANGED <<now, concVarsButShared>>

\* getAudioDuration, lines 116-131: ffprobe reads whatever is at the path; on
\* a missing file it rejects, the catch block unlinks and the route answers 500.
Probe(r) ==
    /\ jobs[r].pc = "ffprobe"
    /\ IF Exists(jobs[r].probePath)
       THEN SetJob(r, [jobs[r] EXCEPT
                         !.duration = FileAt(jobs[r].probePath).data.seconds,
                         !.pc = "probe_unlink"])
       ELSE SetJob(r, [jobs[r] EXCEPT !.result = Failed500, !.pc = "done"])
    /\ UNCHANGED <<now, disk, concVarsButShared>>

\* getAudioDuration, line 134.
ProbeUnlink(r) ==
    /\ jobs[r].pc = "probe_unlink"
    /\ disk' = unlink(disk, {jobs[r].probePath})
    /\ SetJob(r, [jobs[r] EXCEPT !.pc = "split_paths"])
    /\ UNCHANGED <<now, concVarsButShared>>

\* route.ts line 54 then splitAudioFile, lines 221-227.
SplitPaths(r) ==
    /\ jobs[r].pc = "split_paths"
    /\ SetJob(r, [jobs[r] EXCEPT
                    !.inputPath = InputPathAt(now, jobs[r].name),
                    !.outPaths = [n \in 1..calculateRequiredParts(jobs[r].duration)
                                    |-> PartPathAt(n, now)],
                    !.pc = "write"])
    /\ UNCHANGED <<now, disk, concVarsButShared>>

\* splitAudioFile, lines 231-232 (trimAudioFile, lines 160-161).
WriteInput(r) ==
    /\ jobs[r].pc = "write"
    /\ disk' = writeFile(disk, jobs[r].inputPath, r, Upload(r))
    /\ SetJob(r, [jobs[r] EXCEPT !.pc = "encode", !.k = 0])
    /\ UNCHANGED <<now, concVarsButShared>>

\* The catch blocks of splitAudioFile (279-286) and trimAudioFile (184-189),
\* then the catch of the route (164-171).
FailAndCleanup(r) ==
    /\ disk' = unlink(disk, {jobs[r].inputPath} \cup Range(jobs[r].outPaths))
    /\ SetJob(r, [jobs[r] EXCEPT !.result = Failed500, !.pc = "done"])

\* splitAudioFile, lines 244-259 (trimAudioFile, lines 165-174): one ffmpeg
\* run, from whatever is at the input path to output k + 1.
Encode(r) ==
    /\ jobs[r].pc = "encode"
    /\ IF Exists(jobs[r].inputPath)
       THEN /\ disk' = writeFile(disk, jobs[r].outPaths[jobs[r].k + 1], r,
                                 Encoded(FileAt(jobs[r].inputPath).data,
                                         jobs[r].k + 1))
            /\ IF jobs[r].k + 1 < Len(jobs[r].outPaths)
               THEN SetJob(r, [jobs[r] EXCEPT !.k = @ + 1])
               ELSE SetJob(r, [jobs[r] EXCEPT !.k = 0, !.pc = "read"])
       ELSE FailAndCleanup(r)
    /\ UNCHANGED <<now, concVarsButShared>>

\* splitAudioFile, lines 266-270 (trimAudioFile, line 177).
ReadOutput(r) ==
    /\ jobs[r].pc = "read"
    /\ IF Exists(jobs[r].outPaths[jobs[r].k + 1])
       THEN /\ SetJob(r, [jobs[r] EXCEPT
                            !.buffers = Append(@, FileAt(jobs[r].outPaths[
                                                    jobs[r].k + 1]).data),
                            !.k = IF @ + 1 < Len(jobs[r].outPaths) THEN @ + 1 ELSE 0,
                            !.pc = IF jobs[r].k + 1 < Len(jobs[r].outPaths)
                                   THEN "read" ELSE "cleanup"])
            /\ UNCHANGED disk
       ELSE FailAndCleanup(r)
    /\ UNCHANGED <<now, concVarsButShared>>

\* splitAudioFile, lines 273-278 (trimAudioFile, lines 179-182), then the
\* buffers are what the route transcribes and answers from.
Cleanup(r) ==
    /\ jobs[r].pc = "cleanup"
    /\ disk' = unlink(disk, {jobs[r].inputPath} \cup Range(jobs[r].outPaths))
    /\ SetJob(r, [jobs[r] EXCEPT
                    !.result = [status |-> 200, audio |-> jobs[r].buffers],
                    !.pc = "done"])
    /\ UNCHANGED <<now, concVarsButShared>>

ConcNext ==
    \/ Tick
    \/ \E r \in Requests : TrimPaths(r)
    \/ \E r \in Requests : ProbePath(r)
    \/ \E r \in Requests : ProbeWrite(r)
    \/ \E r \in Requests : Probe(r)
    \/ \E r \in Requests : ProbeUnlink(r)
    \/ \E r \in Requests : SplitPaths(r)
    \/ \E r \in Requests : WriteInput(r)
    \/ \E r \in Requests : Encode(r)
    \/ \E r \in Requests : ReadOutput(r)
    \/ \E r \in Requests : Cleanup(r)

ConcSpec == ConcInit /\ [][ConcNext]_vars

(***************************************************************************)
(* The page (page.tsx, Home): dropping files, choosing the processing mode, *)
(* moving the trim slider and pressing Transcribe.  The language select and *)
(* the advanced options stay at their initial values.                       *)
(***************************************************************************)
\* Most requests the page starts.
MaxRequests == 2

\* Files the user drops, the name as its pieces between dots: 25 MiB exactly,
\* one byte more, 30 MiB and 120 MiB.
DroppedFiles ==
    {[name |-> <<"short", "mp3">>, size |-> 25 * 1024 * 1024],
     [name |-> <<"talk", "m4a">>, size |-> 25 * 1024 * 1024 + 1],
     [name |-> <<"SONG", "MP3">>, size |-> 30 * 1024 * 1024],
     [name |-> <<"lecture", "m4a">>, size |-> 120 * 1024 * 1024]}

\* Bodies of a 200 answer, and the `error` of another answer ("": absent).
ServerData ==
    {[transcription |-> "hello", summary |-> "s", keyPoints |-> <<"p">>],
     [transcription |-> "", summary |-> "No summary available",
      keyPoints |-> <<>>]}

ServerErrors == {"No file provided", ""}

\* isFileSizeOverLimit (audio-client.ts 47-50).
isFileSizeOverLimit(bytes) == bytes > 25 * 1024 * 1024

\* droppedFile.name.split('.').pop() || 'mp3' (page.tsx 70).
Extension(name) ==
    IF Len(name) = 0 \/ name[Len(name)] = "" THEN "mp3" ELSE name[Len(name)]

\* format.toLowerCase() on the extensions above.
toLowerCase(str) ==
    CASE str = "MP3" -> "mp3" [] str = "M4A" -> "m4a" [] OTHER -> str

\* averageBitrates[format.toLowerCase()] || 128 (audio-client.ts 18-23).
AverageBitrate(format) ==
    CASE toLowerCase(format) = "mp3" -> 128
      [] toLowerCase(format) = "m4a" -> 256
      [] OTHER -> 128

\* Math.round(n / d) for n >= 0 and an even d > 0.
RoundDiv(n, d) == (n + d \div 2) \div d

\* estimateAudioDuration (audio-client.ts 13-29), in minutes.
estimateAudioDuration(fileSizeBytes, format) ==
    RoundDiv(fileSizeBytes * 8, AverageBitrate(format) * 1000 * 60)

Min(a, b) == IF a < b THEN a ELSE b

DigitChar(d) ==
    CASE d = 0 -> "0" [] d = 1 -> "1" [] d = 2 -> "2" [] d = 3 -> "3"
      [] d = 4 -> "4" [] d = 5 -> "5" [] d = 6 -> "6" [] d = 7 -> "7"
      [] d = 8 -> "8" [] d = 9 -> "9"

RECURSIVE NumberToString(_)
\* trimDuration.toString() for a whole number n >= 0, as its characters.
NumberToString(n) ==
    IF n < 10 THEN <<DigitChar(n)>>
    ELSE NumberToString(n \div 10) \o <<DigitChar(n % 10)>>

\* max of the trim slider (page.tsx 248).
SliderMax(estimated) == Min(IF estimated # 0 THEN estimated ELSE 60, 60)

\* Positions of the slider the model moves it to: both ends, 24 and 25.
SliderPositions(estimated) ==
    {v \in {1, 24, 25, SliderMax(estimated)} : v >= 1 /\ v <= SliderMax(estimated)}

ClientInit ==
    /\ req = [hasFile |-> TRUE, language |-> "english", splitAudio |-> "true",
              trimDuration |-> <<Null>>]
    /\ file = [name |-> "audio.m4a", type |-> "audio/m4a",
               size |-> 28 * 1024 * 1024, seconds |-> 0]
    /\ ffprobeBinaryPath = TRUE
    /\ pc = "client"
    /\ HandlerIdle
    /\ planDuration = 0
    /\ planParts = 0
    /\ SharedIdle

serverVars == <<handlerVars, req, file, ffprobeBinaryPath, pc, planDuration,
                planParts, responses, now, disk, jobs, completion>>

\* onDrop with isFileTooLarge never reset to false.
onDropKeepsTooLarge(droppedFile) ==
    /\ LET isTooLarge == isFileSizeOverLimit(droppedFile.size)
           estimated  == estimateAudioDuration(droppedFile.size,
                                               Extension(droppedFile.name))
       IN  page' = [page EXCEPT
                      !.file = droppedFile,
                      !.fileSize = droppedFile.size,
                      !.error = "",
                      !.isFileTooLarge = @ \/ isTooLarge,
                      !.estimatedDuration = IF isTooLarge THEN estimated ELSE @,
                      !.trimDuration = IF isTooLarge
                                       THEN Min(estimated \div 2, 15) ELSE @]
    /\ UNCHANGED <<fetches, started, serverVars>>

\* onDrop (page.tsx 57-77) for acceptedFiles = [droppedFile].
onDrop(droppedFile) ==
    /\ LET isTooLarge == isFileSizeOverLimit(droppedFile.size)
           estimated  == estimateAudioDuration(droppedFile.size,
                                               Extension(droppedFile.name))
       IN  page' = [page EXCEPT
                      !.file = droppedFile,
                      !.fileSize = droppedFile.size,
                      !.error = "",
                      !.isFileTooLarge = isTooLarge,
                      !.estimatedDuration = IF isTooLarge THEN estimated ELSE @,
                      !.trimDuration = IF isTooLarge
                                       THEN Min(estimated \div 2, 15) ELSE @]
    /\ UNCHANGED <<fetches, started, serverVars>>

\* The radio group (page.tsx 198, 214): shown for a file that is too large.
setProcessingMode(value) ==
    /\ page.isFileTooLarge
    /\ page' = [page EXCEPT !.processingMode = value]
    /\ UNCHANGED <<fetches, started, serverVars>>

\* The slider (page.tsx 240-253): shown in trim mode, from 1 to its max.
setTrimDuration(value) ==
    /\ page.isFileTooLarge
    /\ page.processingMode = "trim"
    /\ value \in SliderPositions(page.estimatedDuration)
    /\ page' = [page EXCEPT !.trimDuration = value]
    /\ UNCHANGED <<fetches, started, serverVars>>

\* The form of handleTranscribe (page.tsx 101-120).
FormData ==
    [file |-> page.file,
     language |-> page.language,
     splitAudio |-> IF page.isFileTooLarge /\ page.processingMode = "split"
                    THEN "true" ELSE Null,
     trimDuration |-> IF page.isFileTooLarge /\ page.processingMode # "split"
                      THEN NumberToString(page.trimDuration) ELSE <<Null>>]

\* The button left enabled while a request is loading.
TranscribeEnabledWhileLoading == page.file # NoFileYet

\* disabled={!file || isLoading} (page.tsx 352).
TranscribeEnabled == page.file # NoFileYet /\ ~page.isLoading

\* handleTranscribe up to its await of fetch (page.tsx 88-125).
handleTranscribe ==
    /\ TranscribeEnabled
    /\ started < MaxRequests
    /\ page' = [page EXCEPT !.isLoading = TRUE, !.error = "",
                            !.transcription = "", !.summary = "",
                            !.keyPoints = <<>>]
    /\ fetches' = Append(fetches, [form |-> FormData, stage |-> "fetch",
                                   ok |-> FALSE])
    /\ started' = started + 1
    /\ UNCHANGED serverVars

\* The sequence without its k-th element.
Without(seq, k) == SubSeq(seq, 1, k - 1) \o SubSeq(seq, k + 1, Len(seq))

\* catch and finally (page.tsx 136-141) with the message of the error.
FailWith(k, message) ==
    /\ page' = [page EXCEPT !.error = message, !.isLoading = FALSE]
    /\ fetches' = Without(fetches, k)
    /\ UNCHANGED <<started, serverVars>>

\* fetch rejects (page.tsx 122).
FetchRejects(k) ==
    /\ k \in 1..Len(fetches)
    /\ fetches[k].stage = "fetch"
    /\ FailWith(k, "Failed to fetch")

\* fetch resolves with a response; response.json() is awaited next.
FetchResolves(k, ok) ==
    /\ k \in 1..Len(fetches)
    /\ fetches[k].stage = "fetch"
    /\ fetches' = [fetches EXCEPT ![k] = [@ EXCEPT !.stage = "json", !.ok = ok]]
    /\ UNCHANGED <<page, started, serverVars>>

\* response.json() rejects (page.tsx 128 or 132).
JsonRejects(k) ==
    /\ k \in 1..Len(fetches)
    /\ fetches[k].stage = "json"
    /\ FailWith(k, "Unexpected end of JSON input")

\* !response.ok: throw new Error(errorData.error || 'Failed to transcribe').
JsonResolvesError(k, errorText) ==
    /\ k \in 1..Len(fetches)
    /\ fetches[k].stage = "json"
    /\ ~fetches[k].ok
    /\ FailWith(k, IF errorText # "" THEN errorText ELSE "Failed to transcribe")

\* The results are set (page.tsx 132-135), then finally.
JsonResolvesData(k, data) ==
    /\ k \in 1..Len(fetches)
    /\ fetches[k].stage = "json"
    /\ fetches[k].ok
    /\ page' = [page EXCEPT !.transcription = data.transcription,
                            !.summary = data.summary,
                            !.keyPoints = data.keyPoints,
                            !.isLoading = FALSE]
    /\ fetches' = Without(fetches, k)
    /\ UNCHANGED <<started, serverVars>>

ClientNext ==
    \/ \E f \in DroppedFiles : onDrop(f)
    \/ \E m \in {"trim", "split"} : setProcessingMode(m)
    \/ \E v \in 1..60 : setTrimDuration(v)
    \/ handleTranscribe
    \/ \E k \in 1..MaxRequests : FetchRejects(k)
    \/ \E k \in 1..MaxRequests, ok \in BOOLEAN : FetchResolves(k, ok)
    \/ \E k \in 1..MaxRequests : JsonRejects(k)
    \/ \E k \in 1..MaxRequests, e \in ServerErrors : JsonResolvesError(k, e)
    \/ \E k \in 1..MaxRequests, d \in ServerData : JsonResolvesData(k, d)

ClientSpec == ClientInit /\ [][ClientNext]_vars

(***************************************************************************)
(* Properties                                                              *)
(***************************************************************************)
OnSplitPath == req.hasFile /\ req.language # "" /\ req.splitAudio = "true"

Responded == Len(responses) > 0

RECURSIVE SumLengths(_, _)
\* Sum of the lengths of the first k windows of ws.
SumLengths(ws, k) ==
    IF k = 0 THEN Rat(0, 1) ELSE RatAdd(SumLengths(ws, k - 1), ws[k].length)

\* Where a window ends in the source: after its length, or at the end of the
\* audio when the transcoder was given no duration.
WindowEnd(w) ==
    IF w.hasDuration THEN RatAdd(w.start, w.length) ELSE Rat(file.seconds, 1)

\* C1: the windows handed to the transcoder by splitAudioFile are contiguous
\* and non-overlapping for every (duration, partCount), duration 0 included:
\* the first starts at 0, each next one starts where the previous one ends,
\* only the last is open-ended, and the bounded lengths add up to the start
\* of the last window, so that lengths plus the last window cover the duration.
SplitWindowsPartitionDuration ==
    OnSplitPath =>
        \A k \in 1..Len(encodeCalls) :
            /\ k = 1 => RatZero(encodeCalls[k].start)
            /\ k > 1 => RatEq(encodeCalls[k].start, WindowEnd(encodeCalls[k - 1]))
            /\ encodeCalls[k].hasDuration <=> k < numParts
            /\ k = numParts =>
                   /\ RatEq(SumLengths(encodeCalls, k - 1), encodeCalls[k].start)
                   /\ RatLeq(encodeCalls[k].start, Rat(duration, 1))

\* C2: calculateRequiredParts(d) = max(2, ceil((d / 60) / 24)) for every
\* d >= 0: the result is at least 2, it is the least n >= 2 with n * 24
\* minutes >= d, durations up to 2880 s give 2 and 3350 s gives 3.
PlannedPartsIsClampedCeiling ==
    pc = "planned" =>
        /\ planParts >= 2
        /\ planParts * 24 * 60 >= planDuration
        /\ planParts > 2 => (planParts - 1) * 24 * 60 < planDuration
        /\ planDuration <= 2880 => planParts = 2
        /\ planDuration = 3350 => planParts = 3

PlannedThreeParts == pc = "planned" /\ planDuration = 3350 /\ planParts = 3

\* The size guard has looked at all the parts of the request.
GuardHasRun ==
    /\ OnSplitPath
    /\ numParts > 0
    /\ Len(partBuffers) = numParts
    /\ pc \notin {"read", "guard"}

\* C3: the size guard fails closed at the boundary: parts of exactly 25 MiB
\* pass, a part of 25 MiB + 1 byte makes the request fail with the guard's
\* 400, and every file sent to the provider on the split path is <= 25 MiB.
SizeGuardFailsClosed ==
    /\ OnSplitPath =>
           \A k \in 1..Len(transcribeCalls) :
               transcribeCalls[k].file.size <= 25 * 1024 * 1024
    /\ GuardHasRun /\ (\E k \in 1..numParts : partBuffers[k] = 25 * 1024 * 1024 + 1)
           => /\ pc = "done"
              /\ responses = <<responses[1]>>
              /\ responses[1].status = 400
              /\ IsError(responses[1])
              /\ responses[1].body.error.kind = "SplitFailed"
    /\ GuardHasRun /\ (\A k \in 1..numParts : partBuffers[k] <= 25 * 1024 * 1024)
           => \A r \in 1..Len(responses) :
                  IsError(responses[r]) =>
                      responses[r].body.error.kind # "SplitFailed"

CeilingSizedPartTranscribed ==
    /\ OnSplitPath
    /\ pc = "done"
    /\ IsSuccess(responses[1])
    /\ \A k \in 1..Len(transcribeCalls) :
           transcribeCalls[k].file.size = 25 * 1024 * 1024

\* C4: on the split path no transcription call is issued unless every part
\* passed the size check: when any part, the last included, is over the
\* ceiling, the request issues zero transcription calls.
NoTranscriptionIfAnyPartOversized ==
    (\E k \in 1..Len(partBuffers) : partBuffers[k] > 25 * 1024 * 1024)
        => transcribeCalls = <<>>

OnlyLastPartOversizedRejected ==
    /\ GuardHasRun
    /\ pc = "done"
    /\ partBuffers[numParts] > 25 * 1024 * 1024
    /\ \A k \in 1..(numParts - 1) : partBuffers[k] <= 25 * 1024 * 1024
    /\ responses[1].status = 400
    /\ transcribeCalls = <<>>

\* C5: on the split path the provider is called one part at a time and in
\* window order (call k is for part k, at most one call is outstanding), and
\* a successful request made exactly one call per part, that is
\* calculateRequiredParts(probed duration) >= 2 calls.
SplitCallsSequentialInOrder ==
    OnSplitPath =>
        /\ inflight \in {0, 1}
        /\ Len(transcribeCalls) <= Len(providerReplies) + 1
        /\ \A k \in 1..Len(transcribeCalls) :
               /\ transcribeCalls[k].file.name = PartName(k)
               /\ transcribeCalls[k].file.size = partBuffers[k]
        /\ Responded /\ IsSuccess(responses[1]) =>
               /\ Len(transcribeCalls) = calculateRequiredParts(duration)
               /\ Len(transcribeCalls) = Len(encodeCalls)
               /\ Len(transcribeCalls) >= 2
               /\ Len(providerReplies) = Len(transcribeCalls)

SplitSucceededWithThreeCalls ==
    /\ OnSplitPath
    /\ pc = "done"
    /\ IsSuccess(responses[1])
    /\ duration = 3350
    /\ Len(transcribeCalls) = 3

RECURSIVE FragmentStart(_, _)
\* Position in the joined text of the first character of fragment k.
FragmentStart(frags, k) ==
    IF k = 1 THEN 1
    ELSE FragmentStart(frags, k - 1) + Len(frags[k - 1]) + 1

\* text is the fragments in order with exactly one space between neighbours.
SpaceJoined(text, frags) ==
    /\ Len(frags) > 0
    /\ Len(text) = FragmentStart(frags, Len(frags)) + Len(frags[Len(frags)]) - 1
    /\ \A k \in 1..Len(frags) :
        /\ \A c \in 1..Len(frags[k]) :
               text[FragmentStart(frags, k) + c - 1] = frags[k][c]
        /\ k > 1 => text[FragmentStart(frags, k) - 1] = " "

\* C6: on the split path the transcription returned is the provider's texts
\* in window order joined by exactly one space; nothing is dropped,
\* duplicated or reordered, empty and repeated fragments included.
SplitTranscriptIsSpaceJoined ==
    OnSplitPath /\ Responded /\ IsSuccess(responses[1]) =>
        /\ Len(providerReplies) = numParts
        /\ SpaceJoined(responses[1].body.transcription, providerReplies)

EmptyAndRepeatedFragmentsJoined ==
    /\ OnSplitPath
    /\ Responded
    /\ IsSuccess(responses[1])
    /\ providerReplies = << <<"a">>, <<>>, <<"a">> >>
    /\ responses[1].body.transcription = <<"a", " ", " ", "a">>

\* A transcription call of the split path has returned without a text.
SplitTranscriptionFailed ==
    OnSplitPath /\ Len(transcribeCalls) - inflight > Len(providerReplies)

\* C7: when the transcription of part k fails on the split path, no call is
\* issued for a later part, no summarization call is issued, and the only
\* response is a 500 error carrying no transcript text.
FailedPartAbortsAggregation ==
    SplitTranscriptionFailed =>
        /\ pc = "done"
        /\ inflight = 0
        /\ Len(transcribeCalls) = Len(providerReplies) + 1
        /\ summarizeCalls = <<>>
        /\ responses = <<ErrorResponse(500, "ProviderError")>>
        /\ DOMAIN responses[1].body = {"error"}

SecondPartFailedAfterFirstText ==
    /\ SplitTranscriptionFailed
    /\ providerReplies = << <<"a">> >>
    /\ Len(transcribeCalls) = 2
    /\ Len(partFiles) = 3
    /\ pc = "done"

\* C8: when the inspection backend answers without a duration,
\* getAudioDuration fails instead of returning 0: the request ends in an
\* error and no parts are planned or cut from the unmeasured duration.
ProbeNeverDefaultsToZero ==
    probeOutcome = "noDuration" =>
        /\ pc = "done"
        /\ Responded
        /\ IsError(responses[1])
        /\ numParts = 0
        /\ encodeCalls = <<>>

\* C9: when the duration probe throws on a request with splitAudio=true, the
\* request ends with a status 500 error and no transcoder, transcription or
\* summarization call is issued: no fallback to the trim or direct path.
ProbeFailureIs500WithNoCalls ==
    probeOutcome \in {"unconfigured", "writeFailed", "error"} =>
        /\ pc = "done"
        /\ responses = <<ErrorResponse(500, "DurationUnknown")>>
        /\ encodeCalls = <<>>
        /\ transcribeCalls = <<>>
        /\ summarizeCalls = <<>>

ProbeRejectedWithTrimAlsoGiven ==
    /\ OnSplitPath
    /\ probeOutcome = "error"
    /\ probeCalls = 1
    /\ req.trimDuration = <<"1", "5">>
    /\ pc = "done"

\* C10: when the handler returns its response, on success or on a failure at
\* any stage, no temporary file of the request exists any more.
NoTempFileAtResponse ==
    Responded => tmpFiles = {}

EncodeFailedAfterFirstPart ==
    /\ OnSplitPath
    /\ pc = "done"
    /\ Len(encodeCalls) >= 2
    /\ IsError(responses[1])
    /\ responses[1].body.error.kind = "EncodeError"
    /\ tmpFiles = {}

\* The request lacks the file or the language.
MissingInput == ~req.hasFile \/ req.language = ""

\* The size guard has met a part over the ceiling.
SegmentStillOversized ==
    GuardHasRun /\ \E k \in 1..numParts : partBuffers[k] > 25 * 1024 * 1024

\* C13: every failure response has the shape {error}; its status is 400
\* exactly when the cause is a missing file, a missing language or a segment
\* over the ceiling, and 500 for every other failure; no failure yields 200.
FailureStatusByCause ==
    \A r \in 1..Len(responses) :
        /\ IsError(responses[r]) \/ IsSuccess(responses[r])
        /\ responses[r].status = 200 <=> IsSuccess(responses[r])
        /\ IsError(responses[r]) =>
               /\ responses[r].status \in {400, 500}
               /\ responses[r].status = 400
                      <=> (MissingInput \/ SegmentStillOversized)

OversizedSegmentAnswered400 ==
    /\ SegmentStillOversized
    /\ Responded
    /\ IsError(responses[1])
    /\ responses[1].status = 400

SplitPositions ==
    {"probe_write", "ffprobe", "split_write", "encode", "read", "guard",
     "transcribe", "transcribe_wait"}

TrimPositions == {"trim_write", "trim_encode", "trim_read"}

SinglePositions == {"transcribe_one", "transcribe_one_wait"}

\* C14: a valid request follows exactly one path, chosen once: split when
\* splitAudio is 'true' (the trimmer is then never invoked, even with a
\* trimDuration), otherwise trim when trimDuration is nonempty, otherwise
\* direct; the probe and the segment cutter run only on the split path.
ExactlyOnePathTaken ==
    req.hasFile /\ req.language # "" =>
        /\ pc = "start" =>
               probeCalls = 0 /\ encodeCalls = <<>> /\ transcribeCalls = <<>>
        /\ req.splitAudio = "true" =>
               /\ pc \notin TrimPositions \cup SinglePositions
               /\ file.name = "audio.m4a"
               /\ TrimOutputPath \notin tmpFiles
               /\ Len(encodeCalls) <= numParts
               /\ \A k \in 1..Len(transcribeCalls) :
                      transcribeCalls[k].file.name # "audio.m4a"
                      /\ transcribeCalls[k].file.name # "trimmed-audio.m4a"
        /\ req.splitAudio # "true" =>
               /\ pc \notin SplitPositions
               /\ probeCalls = 0
               /\ probeOutcome = "none"
               /\ numParts = 0
               /\ partBuffers = <<>>
               /\ tmpFiles \subseteq {TrimInputPath, TrimOutputPath}
               /\ Len(encodeCalls) <= 1
               /\ Len(transcribeCalls) <= 1
        /\ req.splitAudio # "true" /\ req.trimDuration \in {<<Null>>, <<>>} =>
               /\ pc \notin TrimPositions
               /\ encodeCalls = <<>>
               /\ tmpFiles = {}
               /\ file.name = "audio.m4a"

SplitTakenWithTrimDurationGiven ==
    /\ req.splitAudio = "true"
    /\ req.trimDuration = <<"1", "5">>
    /\ pc = "done"
    /\ IsSuccess(responses[1])
    /\ probeCalls = 1
    /\ Len(encodeCalls) = 3

\* The file of a transcription call is the upload as received.
OriginalUpload(f) ==
    /\ f.name = "audio.m4a"
    /\ f.type = "audio/m4a"
    /\ f.size \in {10 * 1024 * 1024, 28 * 1024 * 1024}
    /\ f.size = file.size

SingleCallIssued ==
    pc \in {"transcribe_one_wait", "summarize", "summarize_wait", "done"}

\* C15: with a trimDuration that parses to a value <= 0 (and splitAudio not
\* 'true') the transcoder is never invoked, the file sent to the provider is
\* the upload unchanged (name, type, bytes) and exactly one transcription
\* call is made.
NonPositiveTrimIsNoOp ==
    /\ req.hasFile /\ req.language # "" /\ req.splitAudio # "true"
    /\ req.trimDuration \in {<<"0">>, <<"-", "3">>}
    =>  /\ encodeCalls = <<>>
        /\ tmpFiles = {}
        /\ pc \notin TrimPositions
        /\ Len(transcribeCalls) <= 1
        /\ \A k \in 1..Len(transcribeCalls) : OriginalUpload(transcribeCalls[k].file)
        /\ SingleCallIssued => Len(transcribeCalls) = 1

NegativeTrimTranscribedUpload ==
    /\ req.splitAudio # "true"
    /\ req.trimDuration = <<"-", "3">>
    /\ pc = "done"
    /\ IsSuccess(responses[1])
    /\ Len(transcribeCalls) = 1
    /\ transcribeCalls[1].file.size = 28 * 1024 * 1024

\* The minutes a positive trimDuration of the model stands for.
PositiveTrimMinutes ==
    IF req.trimDuration = <<"1">> THEN 1
    ELSE IF req.trimDuration = <<"1", "5">> THEN 15
    ELSE IF req.trimDuration = <<"3", "0">> THEN 30 ELSE 0

\* C16: with trimDuration = m > 0 (and splitAudio not 'true') the transcoder
\* is invoked exactly once, from 0 for m * 60 seconds; the file sent to the
\* provider is the trimmed output, not the upload; exactly one transcription
\* call is made and the transcription returned is that one fragment.
PositiveTrimSendsTrimmedPrefix ==
    /\ req.hasFile /\ req.language # "" /\ req.splitAudio # "true"
    /\ PositiveTrimMinutes > 0
    =>  /\ Len(encodeCalls) <= 1
        /\ \A k \in 1..Len(encodeCalls) :
               /\ encodeCalls[k].start = <<0, 1>>
               /\ encodeCalls[k].hasDuration
               /\ encodeCalls[k].length = <<60 * PositiveTrimMinutes, 1>>
        /\ Len(transcribeCalls) <= 1
        /\ \A k \in 1..Len(transcribeCalls) :
               /\ Len(encodeCalls) = 1
               /\ transcribeCalls[k].file.name = "trimmed-audio.m4a"
               /\ transcribeCalls[k].file.type = "audio/mp3"
               /\ transcribeCalls[k].file.size = file.size
               /\ transcribeCalls[k].file.size
                      \notin {10 * 1024 * 1024, 28 * 1024 * 1024}
        /\ Responded /\ IsSuccess(responses[1]) =>
               /\ Len(encodeCalls) = 1
               /\ Len(transcribeCalls) = 1
               /\ providerReplies = <<responses[1].body.transcription>>

FifteenMinuteTrimSucceeded ==
    /\ req.splitAudio # "true"
    /\ req.trimDuration = <<"1", "5">>
    /\ file.size = 1024
    /\ pc = "done"
    /\ IsSuccess(responses[1])
    /\ encodeCalls = <<[start |-> <<0, 1>>, hasDuration |-> TRUE,
                        length |-> <<900, 1>>]>>
    /\ responses[1].body.transcription = <<"a">>

\* C17: with neither splitAudio='true' nor a trimDuration the handler takes
\* the direct path whatever the size of the asset: no probe, no transcoder,
\* exactly one transcription call with the upload itself, and the
\* transcription returned is the provider's text verbatim.
DirectPathWhateverTheSize ==
    /\ req.hasFile /\ req.language # "" /\ req.splitAudio # "true"
    /\ req.trimDuration \in {<<Null>>, <<>>}
    =>  /\ probeCalls = 0
        /\ encodeCalls = <<>>
        /\ Len(transcribeCalls) <= 1
        /\ \A k \in 1..Len(transcribeCalls) : OriginalUpload(transcribeCalls[k].file)
        /\ pc = "done" => Len(transcribeCalls) = 1
        /\ Responded /\ IsSuccess(responses[1]) =>
               providerReplies = <<responses[1].body.transcription>>

OversizedUploadSentDirectly ==
    /\ req.splitAudio = Null
    /\ req.trimDuration = <<Null>>
    /\ pc = "done"
    /\ IsSuccess(responses[1])
    /\ transcribeCalls[1].file.size = 28 * 1024 * 1024
    /\ responses[1].body.transcription = <<"a">>

\* The request failed before the summarization step.
FailedBeforeSummarization ==
    /\ Responded
    /\ IsError(responses[1])
    /\ transcribeCalls = <<>> \/ Len(providerReplies) < Len(transcribeCalls)

\* C18: on every path a successful request issues exactly one summarization
\* call, issued only after the last transcription call has returned, whose
\* message carries the complete transcript that is also returned as
\* `transcription`; a request that failed earlier issues none.
OneSummaryFromFullTranscript ==
    /\ Len(summarizeCalls) <= 1
    /\ summarizeCalls # <<>> =>
           /\ inflight = 0
           /\ Len(transcribeCalls) >= 1
           /\ Len(providerReplies) = Len(transcribeCalls)
           /\ OnSplitPath =>
                  /\ Len(transcribeCalls) = numParts
                  /\ SpaceJoined(summarizeCalls[1], providerReplies)
           /\ ~OnSplitPath => summarizeCalls = providerReplies
    /\ Responded /\ IsSuccess(responses[1]) =>
           summarizeCalls = <<responses[1].body.transcription>>
    /\ FailedBeforeSummarization => summarizeCalls = <<>>

TwoPartTranscriptSummarized ==
    /\ OnSplitPath
    /\ pc = "done"
    /\ IsSuccess(responses[1])
    /\ providerReplies = << <<"a">>, <<"b">> >>
    /\ summarizeCalls = << <<"a", " ", "b">> >>

\* An external call of the request has failed.
ExternalCallFailed ==
    \/ probeOutcome = "error"
    \/ Len(transcribeCalls) - inflight > Len(providerReplies)
    \/ Responded /\ IsError(responses[1])
           /\ responses[1].body.error.kind
                  \in {"EncodeError", "ProviderError", "ParseError"}

NoCallRepeated ==
    /\ probeCalls <= 1
    /\ Len(summarizeCalls) <= 1
    /\ OnSplitPath =>
           /\ Len(encodeCalls) <= numParts
           /\ \A k \in 1..Len(encodeCalls) :
                  RatEq(encodeCalls[k].start, <<(k - 1) * duration, numParts>>)
           /\ pc = "encode" =>
                  /\ Len(encodeCalls) = i
                  /\ \A k \in 1..i : PartPath(k) \in tmpFiles
           /\ \A k \in 1..Len(transcribeCalls) :
                  k <= numParts /\ transcribeCalls[k].file.name = PartName(k)
    /\ ~OnSplitPath => Len(encodeCalls) <= 1 /\ Len(transcribeCalls) <= 1
    /\ ExternalCallFailed =>
           /\ pc = "done"
           /\ inflight = 0
           /\ Len(responses) = 1
           /\ DOMAIN responses[1].body = {"error"}

\* C19: no external call is retried and the first failure is terminal: the
\* probe and the summarizer are called at most once, the transcoder at most
\* once per window, the provider at most once per segment; after a call has
\* failed the request has answered with an error only, and once it has
\* answered no further call of any kind is issued.
NoRetryFirstFailureTerminal ==
    /\ []NoCallRepeated
    /\ [][Responded => UNCHANGED <<probeCalls, encodeCalls, transcribeCalls,
                                   summarizeCalls, responses>>]_vars

SecondWindowEncodeFailed ==
    /\ OnSplitPath
    /\ numParts = 3
    /\ Len(encodeCalls) = 2
    /\ pc = "done"
    /\ responses = <<ErrorResponse(500, "EncodeError")>>
    /\ transcribeCalls = <<>>
    /\ summarizeCalls = <<>>

\* Lowest index of a part over the ceiling.
LowestOversizedPart ==
    CHOOSE k \in 1..numParts :
        /\ partBuffers[k] > 25 * 1024 * 1024
        /\ \A j \in 1..(k - 1) : partBuffers[j] <= 25 * 1024 * 1024

\* shown is bytes in MB rounded to two decimals, as hundredths.
ShowsSizeInMB(shown, bytes) ==
    \E c \in 0..100 :
        /\ shown = 100 * (bytes \div (1024 * 1024)) + c
        /\ 2 * (c * 1024 * 1024 - 100 * (bytes % (1024 * 1024))) <= 1024 * 1024
        /\ 2 * (100 * (bytes % (1024 * 1024)) - c * 1024 * 1024) < 1024 * 1024

\* C20: when several segments exceed the ceiling the request fails on the
\* oversized segment with the lowest index; the 400 error reports its 1-based
\* position, its size, the 25MB limit and the part count used; the handler
\* does not plan or cut again.
LowestOversizedPartReported ==
    SegmentStillOversized =>
        /\ pc = "done"
        /\ Len(responses) = 1
        /\ responses[1].status = 400
        /\ DOMAIN responses[1].body = {"error"}
        /\ responses[1].body.error.kind = "SplitFailed"
        /\ responses[1].body.error.part = LowestOversizedPart
        /\ ShowsSizeInMB(responses[1].body.error.size,
                         partBuffers[LowestOversizedPart])
        /\ responses[1].body.error.limitMB = 25
        /\ responses[1].body.error.numParts = numParts
        /\ probeCalls = 1
        /\ Len(encodeCalls) = numParts
        /\ numParts = calculateRequiredParts(duration)

TwoOversizedPartsFirstReported ==
    /\ OnSplitPath
    /\ pc = "done"
    /\ partBuffers = <<1024, 30 * 1024 * 1024, 25 * 1024 * 1024 + 1>>
    /\ responses[1].body.error.part = 2
    /\ responses[1].body.error.size = 3000
    /\ responses[1].body.error.numParts = 3

\* C12: every external call of a request is bounded: even when one of them
\* never responds, the request eventually returns a response.
EveryRequestEventuallyAnswered == <>Responded

\* The temporary files request r has written and not yet removed.
HeldPaths(r) ==
    LET j == jobs[r] IN
    CASE j.pc \in {"ffprobe", "probe_unlink"} -> {j.probePath}
      [] j.pc = "encode" -> {j.inputPath} \cup {j.outPaths[n] : n \in 1..j.k}
      [] j.pc \in {"read", "cleanup"} -> {j.inputPath} \cup Range(j.outPaths)
      [] OTHER -> {}

\* The response of request r when no other request runs: 200, from its own
\* upload cut into one trimmed segment or into its two parts.
ResponseAlone(r) ==
    [status |-> 200,
     audio |-> IF jobs[r].kind = "trim"
               THEN <<[src |-> r, seg |-> 1, seconds |-> ConcUploadSeconds]>>
               ELSE <<[src |-> r, seg |-> 1, seconds |-> ConcUploadSeconds],
                      [src |-> r, seg |-> 2, seconds |-> ConcUploadSeconds]>>]

\* C11: two requests handled at the same time are independent: every
\* temporary file a request has written and not yet removed is still there
\* with that request's content (the other request neither overwrote nor
\* deleted it, so no request reads the other's file), and each finished
\* request answers what it would answer when run alone.
ConcurrentRequestsIndependent ==
    \A r \in Requests :
        /\ \A p \in HeldPaths(r) : \E f \in disk : f.path = p /\ f.owner = r
        /\ jobs[r].pc = "done" => jobs[r].result = ResponseAlone(r)

\* C21: the language code of every transcription call is 'fr' exactly when
\* the request's language is 'french' and 'en' for every other value, and all
\* the calls of a request carry the same code.
LanguageCodeFollowsRequest ==
    \A k \in 1..Len(transcribeCalls) :
        /\ (transcribeCalls[k].language = "fr") <=> (req.language = "french")
        /\ req.language # "french" => transcribeCalls[k].language = "en"
        /\ transcribeCalls[k].language = transcribeCalls[1].language

FrenchSplitSentThreeTimes ==
    /\ req.language = "french"
    /\ req.splitAudio = "true"
    /\ Len(transcribeCalls) = 3
    /\ \A k \in 1..3 : transcribeCalls[k].language = "fr"

\* The summarization step failed: the call threw, or its output is not
\* parseable JSON, or it parses to something that is not an object.
SummarizationFailed ==
    /\ completion.called
    /\ \/ completion.threw
       \/ /\ completion.content.present
          /\ completion.content.text \in {"not json", "[]", "\"text\"", "null"}

\* C22: when the summarization step fails after transcription succeeded, the
\* response is a 500 error without a transcription field.
FailedSummaryDiscardsTranscript ==
    SummarizationFailed =>
        /\ Len(responses) = 1
        /\ responses[1].status = 500
        /\ "transcription" \notin DOMAIN responses[1].body

\* C22 as amended: when the summarizer call throws, or its output is not
\* parseable JSON or parses to null, the response is a 500 error without a
\* transcription field; when its output parses to another non-object (an
\* array, a string) the response is a 200 carrying the transcript, the summary
\* 'No summary available' and no key points.
FailedSummaryDiscardsOrDefaults ==
    completion.called =>
        /\ Len(responses) = 1
        /\ (completion.threw \/ completion.content.text \in {"not json", "null"}) =>
               /\ responses[1].status = 500
               /\ DOMAIN responses[1].body = {"error"}
        /\ (~completion.threw /\ completion.content.text \in {"[]", "\"text\""}) =>
               /\ responses[1].status = 200
               /\ responses[1].body =
                      [transcription |-> summarizeCalls[1],
                       summary |-> "No summary available", keyPoints |-> <<>>]

UnparseableSummaryAfterTwoParts ==
    /\ OnSplitPath
    /\ providerReplies = << <<"a">>, <<"b">> >>
    /\ completion = [called |-> TRUE, threw |-> FALSE,
                     content |-> [present |-> TRUE, text |-> "not json"]]
    /\ responses = <<ErrorResponse(500, "ParseError")>>

\* C23: split mode divides the audio into between 2 and 4 parts, whatever
\* the probed duration.
SplitPartsBetweenTwoAndFour ==
    pc = "planned" => planParts >= 2 /\ planParts <= 4

\* C25: the planned window, duration / parts, is at most 24 minutes (1440 s),
\* and the planned count is the smallest count of at least 2 for which that
\* holds: with one part fewer (when that is still at least 2) the window
\* would be longer than 24 minutes.
PlannedWindowFitsAndIsMinimal ==
    pc = "planned" =>
        /\ planParts >= 2
        /\ planDuration <= planParts * 1440
        /\ planParts - 1 >= 2 => planDuration > (planParts - 1) * 1440

FourPartsOneSecondPastThreeWindows ==
    /\ pc = "planned"
    /\ planDuration = 3 * 1440 + 1
    /\ planParts = 4

\* C26: a request without a file or without a language never reaches an
\* external call or a temporary file, whatever splitAudio and trimDuration
\* say: the handler is at its start or has answered, and its only answer is
\* the 400 of the missing file, or, when the file is there, of the missing
\* language.
ValidationBeforeAnyCall ==
    (~req.hasFile \/ req.language = "") =>
        /\ probeCalls = 0
        /\ probeOutcome = "none"
        /\ encodeCalls = <<>>
        /\ transcribeCalls = <<>>
        /\ summarizeCalls = <<>>
        /\ ~completion.called
        /\ tmpFiles = {}
        /\ pc \in {"start", "done"}
        /\ pc = "start" => responses = <<>>
        /\ pc = "done" =>
               /\ Len(responses) = 1
               /\ responses[1].status = 400
               /\ DOMAIN responses[1].body = {"error"}
               /\ responses[1].body.error.kind =
                      IF ~req.hasFile THEN "NoFile" ELSE "NoLanguage"

NeitherFileNorLanguageWithBothModes ==
    /\ ~req.hasFile
    /\ req.language = ""
    /\ req.splitAudio = "true"
    /\ req.trimDuration = <<"1", "5">>
    /\ pc = "done"
    /\ responses[1].status = 400
    /\ responses[1].body.error.kind = "NoFile"

\* C28: on the trim path, for a trim duration of 1 to 60 minutes and an
\* encoder output of the size its 128 kbps bitrate gives, the file sent to the
\* transcription provider is no larger than 25 MiB.
TrimmedAssetWithinCeiling ==
    /\ req.hasFile /\ req.language # "" /\ req.splitAudio # "true"
    /\ PositiveTrimMinutes >= 1 /\ PositiveTrimMinutes <= 60
    =>  \A k \in 1..Len(transcribeCalls) :
            transcribeCalls[k].file.size = 16000 * file.seconds
                => transcribeCalls[k].file.size <= 25 * 1024 * 1024

\* The body is the success triple, or the error alone.
SuccessOrErrorOnly(r) ==
    \/ r.status = 200 /\ DOMAIN r.body = {"transcription", "summary", "keyPoints"}
    \/ r.status # 200 /\ DOMAIN r.body = {"error"}

\* C29: when every external call eventually succeeds or fails, the request
\* eventually returns a response, it never returns a second one, and the
\* response is either the success triple or an error alone.
EveryRequestAnsweredExactlyOnce ==
    /\ <>(pc = "done" /\ Len(responses) = 1)
    /\ [](Len(responses) <= 1)
    /\ [](\A r \in 1..Len(responses) : SuccessOrErrorOnly(responses[r]))
    /\ [][pc = "done" => UNCHANGED responses]_vars

DirectRequestAnsweredWithDefaults ==
    /\ req.splitAudio # "true"
    /\ req.trimDuration = <<Null>>
    /\ completion.called /\ ~completion.threw /\ ~completion.content.present
    /\ pc = "done"
    /\ Len(responses) = 1
    /\ responses[1].status = 200
    /\ responses[1].body.summary = "No summary available"

\* The form carries a trimDuration that is the decimal text of a whole number.
CarriesWholeTrimDuration(form) ==
    /\ form.trimDuration # <<Null>>
    /\ Len(form.trimDuration) >= 1
    /\ \A n \in 1..Len(form.trimDuration) :
           form.trimDuration[n] \in {"0", "1", "2", "3", "4", "5", "6", "7", "8", "9"}

\* C24: in trim mode the page only sends a trimDuration that is a whole
\* number of minutes from 1 to 24.
ClientTrimDurationAtMost24 ==
    \A k \in 1..Len(fetches) :
        fetches[k].form.trimDuration # <<Null>> =>
            /\ CarriesWholeTrimDuration(fetches[k].form)
            /\ DigitsValue(fetches[k].form.trimDuration) >= 1
            /\ DigitsValue(fetches[k].form.trimDuration) <= 24

\* C27: every request the page builds for a file over 25 MiB carries either
\* splitAudio = 'true' or a positive whole trimDuration, never both and never
\* neither, and every request for a file of at most 25 MiB carries neither.
ClientGatesPathSelection ==
    \A k \in 1..Len(fetches) :
        LET form  == fetches[k].form
            split == form.splitAudio = "true"
            trim  == form.trimDuration # <<Null>>
        IN  /\ form.file \in DroppedFiles
            /\ form.splitAudio \in {Null, "true"}
            /\ trim => CarriesWholeTrimDuration(form)
                       /\ DigitsValue(form.trimDuration) > 0
            /\ form.file.size > 25 * 1024 * 1024 => (split /\ ~trim) \/ (trim /\ ~split)
            /\ form.file.size <= 25 * 1024 * 1024 => ~split /\ ~trim

SmallFileSentAfterTrimOfLargeOne ==
    /\ started = 2
    /\ page.processingMode = "trim"
    /\ page.trimDuration = 60
    /\ Len(fetches) = 1
    /\ fetches[1].form.file.size = 25 * 1024 * 1024
    /\ fetches[1].form.splitAudio = Null
    /\ fetches[1].form.trimDuration = <<Null>>

\* A request of the page is in flight.
InFlight == Len(fetches) > 0

\* C30: isLoading is true exactly while a request of the page is in flight,
\* at most one is in flight at a time, and the step that ends a request
\* leaves isLoading false and either an error with all three results empty,
\* or no error and the results the response carried.
PageLoadingFollowsRequest ==
    /\ [](page.isLoading <=> InFlight)
    /\ [](Len(fetches) <= 1)
    /\ [][Len(fetches') < Len(fetches) =>
            /\ ~page'.isLoading
            /\ \/ /\ page'.error # ""
                  /\ page'.transcription = ""
                  /\ page'.summary = ""
                  /\ page'.keyPoints = <<>>
               \/ /\ page'.error = ""
                  /\ fetches[1].ok
                  /\ [transcription |-> page'.transcription,
                      summary |-> page'.summary,
                      keyPoints |-> page'.keyPoints] \in ServerData]_vars

SecondRequestFailedAfterFirstSucceeded ==
    /\ started = 2
    /\ ~InFlight
    /\ ~page.isLoading
    /\ page.error = "Failed to transcribe"
    /\ page.transcription = ""
    /\ page.summary = ""
    /\ page.keyPoints = <<>>

====
